---- MODULE Spec2Model ----
(***************************************************************************)
(* A model of the blog application of main.py: the blog_post table, the    *)
(* CreatePostForm validation and the seven route handlers.                 *)
(*                                                                         *)
(* The table is a set of rows.  A request is one action: the handler is    *)
(* computed as a pure operator (named as in main.py) that maps the table   *)
(* to the table after the request, the response and the list of the        *)
(* handler steps that ran.  Spec runs every handler to completion;         *)
(* ConcSpec splits edit_post at the point where two requests can           *)
(* interleave (after the row is read, before the form is validated and the *)
(* session is committed).                                                  *)
(***************************************************************************)
EXTENDS Integers, Sequences, FiniteSets, TLC

VARIABLES
    posts,          \* the rows of table blog_post
    now,            \* the server's clock (dt.datetime.now()), as a calendar date
    request,        \* the request the last step answered (none after a clock tick)
    resp,           \* the response to the last request
    steps,          \* the steps the last handler ran, in order
    deleted,        \* history: the ids of the rows that were ever removed
    sessions        \* ConcSpec: per worker, the edit_post request in flight

vars == <<posts, now, request, resp, steps, deleted, sessions>>

----------------------------------------------------------------------------
(* Bounds *)

MaxId == 2          \* new_post is not taken once the next id would exceed it
MaxTicks == 1       \* days the clock may advance
NumWorkers == 2     \* ConcSpec: workers handling edit_post requests

Epoch == [year |-> 2024, month |-> 9, day |-> 9]

----------------------------------------------------------------------------
(* Strings *)

Chr(s, i) == SubSeq(s, i, i)

Min(S) == CHOOSE x \in S : \A y \in S : x <= y
Max(S) == CHOOSE x \in S : \A y \in S : x >= y

Whitespace == {" ", "\t", "\n", "\r"}
Letters == {"a","b","c","d","e","f","g","h","i","j","k","l","m",
            "n","o","p","q","r","s","t","u","v","w","x","y","z",
            "A","B","C","D","E","F","G","H","I","J","K","L","M",
            "N","O","P","Q","R","S","T","U","V","W","X","Y","Z"}
Digits == {"0","1","2","3","4","5","6","7","8","9"}

AllIn(s, C) == \A i \in 1..Len(s) : Chr(s, i) \in C

\* str.strip(): without the leading and trailing whitespace
Strip(s) ==
    LET keep == {i \in 1..Len(s) : Chr(s, i) \notin Whitespace}
    IN  IF keep = {} THEN "" ELSE SubSeq(s, Min(keep), Max(keep))

\* the position of the first occurrence of pat in s at or after from, or 0
Find(s, pat, from) ==
    LET at == {i \in from..(Len(s) - Len(pat) + 1) :
                   SubSeq(s, i, i + Len(pat) - 1) = pat}
    IN  IF at = {} THEN 0 ELSE Min(at)

\* str.split("."), as the set of the parts' <<first, last>> positions
DotParts(s) ==
    LET dots == {i \in 1..Len(s) : Chr(s, i) = "."}
        cuts == {0} \cup dots \cup {Len(s) + 1}
    IN  {<<a + 1, b - 1>> : <<a, b>> \in
            {c \in cuts \X cuts : c[1] < c[2] /\ ~\E d \in dots : c[1] < d /\ d < c[2]}}

----------------------------------------------------------------------------
(* The clock and the date stamp *)

\* %m and %d: two digits, zero padded
Pad2(n) == IF n < 10 THEN "0" \o ToString(n) ELSE ToString(n)

\* dt.datetime.now().strftime('%m %d, %Y')
strftime(d) == Pad2(d.month) \o " " \o Pad2(d.day) \o ", " \o ToString(d.year)

----------------------------------------------------------------------------
(* CreatePostForm *)

\* wtforms DataRequired: the data is truthy and not only whitespace
DataRequired(data) == data # "" /\ Strip(data) # ""

\* wtforms HostnameValidation(require_tld=True) on a host name: dot separated
\* non-empty parts of letters, digits, "_" and "-" (no leading "-"), at least
\* two of them, the last one 2 to 20 letters
HostnameValidation(host) ==
    LET parts == DotParts(host)
        last  == CHOOSE p \in parts : p[2] = Len(host)
    IN  /\ Len(host) > 0
        /\ \A p \in parts :
              /\ p[1] <= p[2]
              /\ p[2] - p[1] + 1 <= 63
              /\ Chr(host, p[1]) # "-"
              /\ AllIn(SubSeq(host, p[1], p[2]), Letters \cup Digits \cup {"_", "-"})
        /\ Cardinality(parts) >= 2
        /\ AllIn(SubSeq(host, last[1], last[2]), Letters)
        /\ last[2] - last[1] + 1 >= 2
        /\ last[2] - last[1] + 1 <= 20

\* wtforms URL(): ^[a-z]+://([^/?:]+)(:[0-9]+)?(/.*?)?(\?.*)?$ ignoring case,
\* then the host name is validated
URL(data) ==
    LET sep   == Find(data, "://", 1)
        h0    == sep + 3
        stops == {i \in h0..Len(data) : Chr(data, i) \in {"/", "?", ":"}}
        hEnd  == IF stops = {} THEN Len(data) ELSE Min(stops) - 1
        host  == SubSeq(data, h0, hEnd)
        rest  == SubSeq(data, hEnd + 1, Len(data))
        \* rest is empty, or a path or query, optionally after a port
        tails == {i \in 1..(Len(rest) + 1) :
                     i = Len(rest) + 1 \/ Chr(rest, i) \in {"/", "?"}}
        tail  == Min(tails)
        port  == SubSeq(rest, 1, tail - 1)
    IN  /\ sep > 1
        /\ AllIn(SubSeq(data, 1, sep - 1), Letters)
        /\ hEnd >= h0
        /\ \/ port = ""
           \/ /\ Chr(port, 1) = ":"
              /\ Len(port) >= 2
              /\ AllIn(SubSeq(port, 2, Len(port)), Digits)
        /\ HostnameValidation(host)

Fields == {"title", "subtitle", "author", "img_url", "body"}

(* The submissions the requests are drawn from *)

Titles == {"Hello", "Bye"}
Rest == {[subtitle |-> "World", author |-> "A", img_url |-> "https://x.com/i.png",
          body |-> "text"],
         [subtitle |-> "Moon", author |-> "B",
          img_url |-> "http://blog.example.org:8080/j.jpg?w=1", body |-> "<p>rich</p>"]}

Form(t, s, a, u, b, k) ==
    [title |-> t, subtitle |-> s, author |-> a, img_url |-> u, body |-> b, csrf |-> k]

GoodForms == {Form(t, r.subtitle, r.author, r.img_url, r.body, TRUE) :
                 t \in Titles, r \in Rest}

Base == Form("Hello", "World", "A", "https://x.com/i.png", "text", TRUE)

BadForms ==
    {[Base EXCEPT !.title = ""],
     [Base EXCEPT !.subtitle = "  "],
     [Base EXCEPT !.author = ""],
     [Base EXCEPT !.img_url = ""],
     [Base EXCEPT !.img_url = "not a url"],
     [Base EXCEPT !.body = ""],
     [Base EXCEPT !.csrf = FALSE]}

Submissions == GoodForms \cup BadForms

\* the form of a request that submits nothing
NoForm == Form("", "", "", "", "", FALSE)

validate_author_optional(f) ==
    /\ f.csrf
    /\ DataRequired(f.title)
    /\ DataRequired(f.subtitle)
    /\ DataRequired(f.img_url) /\ URL(f.img_url)
    /\ DataRequired(f.body)

\* the validators of the five fields, and the CSRF token FlaskForm checks
validate(f) ==
    /\ f.csrf
    /\ DataRequired(f.title)
    /\ DataRequired(f.subtitle)
    /\ DataRequired(f.author)
    /\ DataRequired(f.img_url) /\ URL(f.img_url)
    /\ DataRequired(f.body)

\* validate, evaluated once for each submission
Validated == [f \in Submissions \cup {NoForm} |-> validate(f)]

\* FlaskForm.validate_on_submit: is_submitted() and validate()
validate_on_submit(verb, f) ==
    verb \in {"POST", "PUT", "PATCH", "DELETE"} /\ Validated[f]

\* the data of the form's fields as rendered: the submission when there is
\* one, else the values the form was constructed with
FieldData(verb, f, defaults) ==
    IF verb = "POST"
    THEN [c \in Fields |-> f[c]]
    ELSE defaults

NoDefaults == [c \in Fields |-> ""]

----------------------------------------------------------------------------
(* Table blog_post *)

Ids(P) == {p.id : p \in P}

\* BlogPost.query.get(id), as the set of the rows found (none or one)
Get(P, id) == {p \in P : p.id = id}

NextRowidByCount(P) == Cardinality(P) + 1

\* INTEGER PRIMARY KEY: the row id after the largest one stored
NextRowid(P) == IF P = {} THEN 1 ELSE Max(Ids(P)) + 1

\* unique=True on title
TitleTaken(P, title) == \E p \in P : p.title = title

InsertUnchecked(P, row) ==
    [error |-> "", posts |-> P \cup {[row EXCEPT !.id = NextRowid(P)]}]

\* db.session.add(row); db.session.commit(): INSERT
Insert(P, row) ==
    IF TitleTaken(P, row.title)
    THEN [error |-> "IntegrityError", posts |-> P]
    ELSE [error |-> "", posts |-> P \cup {[row EXCEPT !.id = NextRowid(P)]}]

\* the columns the unit of work finds changed since the row was loaded
Dirty(loaded, row) == {c \in Fields : row[c] # loaded[c]}

FlushUnchecked(P, loaded, row) ==
    [error |-> "", posts |-> (P \ Get(P, loaded.id)) \cup {row}]

\* db.session.commit() after the assignments of edit_post: UPDATE of the
\* changed columns of the row with the loaded row's id
Flush(P, loaded, row) ==
    LET cols   == Dirty(loaded, row)
        target == Get(P, loaded.id)
        old    == CHOOSE p \in target : TRUE
        new    == [old EXCEPT
                      !.title    = IF "title"    \in cols THEN row.title    ELSE @,
                      !.subtitle = IF "subtitle" \in cols THEN row.subtitle ELSE @,
                      !.author   = IF "author"   \in cols THEN row.author   ELSE @,
                      !.img_url  = IF "img_url"  \in cols THEN row.img_url  ELSE @,
                      !.body     = IF "body"     \in cols THEN row.body     ELSE @]
    IN  IF cols = {} THEN [error |-> "", posts |-> P]
        ELSE IF target = {} THEN [error |-> "StaleDataError", posts |-> P]
        ELSE IF "title" \in cols /\ TitleTaken(P \ {old}, new.title)
             THEN [error |-> "IntegrityError", posts |-> P]
        ELSE [error |-> "", posts |-> (P \ {old}) \cup {new}]

DeleteRowUncommitted(P, row) == P

\* db.session.delete(row); db.session.commit(): DELETE
DeleteRow(P, row) == P \ {p \in P : p.id = row.id}

----------------------------------------------------------------------------
(* Responses *)

Response(kind, name, index, post, form, all_posts) ==
    [kind |-> kind, name |-> name, index |-> index,
     post |-> post, form |-> form, all_posts |-> all_posts]

render_template(name, post, form, all_posts) ==
    Response("render", name, 0, post, form, all_posts)

\* redirect(url_for(endpoint, index=index))
redirect(endpoint, index) == Response("redirect", endpoint, index, {}, {}, {})

\* an exception no handler catches
Fault(exception) == Response("fault", exception, 0, {}, {}, {})

Result(P, r, st) == [posts |-> P, resp |-> r, steps |-> st]

----------------------------------------------------------------------------
(* The route handlers *)

get_all_posts(P) ==
    Result(P, render_template("index.html", {}, {}, P), <<"query.all">>)

show_post(P, index) ==
    LET requested_post == {blog_post \in P : blog_post.id = index}
    IN  Result(P, render_template("post.html", requested_post, {}, {}), <<"query.all">>)

about == render_template("about.html", {}, {}, {})

contact == render_template("contact.html", {}, {}, {})

BlogPostAuthorFromSubtitle(f, clock) ==
    [id       |-> 0,
     title    |-> f.title,
     subtitle |-> f.subtitle,
     date     |-> strftime(clock),
     body     |-> f.body,
     author   |-> f.subtitle,
     img_url  |-> f.img_url]

\* BlogPost(title=..., subtitle=..., date=..., body=..., author=..., img_url=...)
BlogPost(f, clock) ==
    [id       |-> 0,
     title    |-> f.title,
     subtitle |-> f.subtitle,
     date     |-> strftime(clock),
     body     |-> f.body,
     author   |-> f.author,
     img_url  |-> f.img_url]

new_post(P, clock, verb, f) ==
    IF validate_on_submit(verb, f)
    THEN LET ins == Insert(P, BlogPost(f, clock))
         IN  IF ins.error # ""
             THEN Result(P, Fault(ins.error), <<"form", "validate_on_submit", "commit">>)
             ELSE Result(ins.posts, redirect("get_all_posts", 0),
                         <<"form", "validate_on_submit", "commit">>)
    ELSE Result(P,
                render_template("make-post.html", {},
                    {[data |-> FieldData(verb, f, NoDefaults), new_post |-> TRUE]}, {}),
                <<"form", "validate_on_submit">>)

AssignWithoutBody(blog_post, f) ==
    [blog_post EXCEPT !.title    = f.title,
                      !.subtitle = f.subtitle,
                      !.author   = f.author,
                      !.img_url  = f.img_url]

\* the five assignments of edit_post
Assign(blog_post, f) ==
    [blog_post EXCEPT !.title    = f.title,
                      !.subtitle = f.subtitle,
                      !.author   = f.author,
                      !.img_url  = f.img_url,
                      !.body     = f.body]

\* edit_post from the construction of the form on, with the row as loaded
edit_post_form(P, blog_post, verb, f) ==
    IF validate_on_submit(verb, f)
    THEN LET upd == Flush(P, blog_post, Assign(blog_post, f))
         IN  IF upd.error # ""
             THEN Result(P, Fault(upd.error),
                         <<"query.get", "form", "validate_on_submit", "commit">>)
             ELSE Result(upd.posts, redirect("show_post", blog_post.id),
                         <<"query.get", "form", "validate_on_submit", "commit">>)
    ELSE Result(P,
                render_template("make-post.html", {},
                    {[data |-> FieldData(verb, f, [c \in Fields |-> blog_post[c]]),
                      new_post |-> FALSE]}, {}),
                <<"query.get", "form", "validate_on_submit">>)

edit_post_validates_first(P, post_id, verb, f) ==
    LET found == Get(P, post_id)
    IN  IF ~validate_on_submit(verb, f)
        THEN Result(P,
                    render_template("make-post.html", {},
                        {[data |-> FieldData(verb, f, NoDefaults), new_post |-> FALSE]}, {}),
                    <<"form", "validate_on_submit">>)
        ELSE IF found = {}
        THEN Result(P, Fault("AttributeError"), <<"form", "validate_on_submit", "query.get">>)
        ELSE edit_post_form(P, CHOOSE blog_post \in found : TRUE, verb, f)

edit_post(P, post_id, verb, f) ==
    LET found == Get(P, post_id)
    IN  IF found = {}
        THEN Result(P, Fault("AttributeError"), <<"query.get">>)
        ELSE edit_post_form(P, CHOOSE blog_post \in found : TRUE, verb, f)

delete_if_found(P, post_id) ==
    LET found == Get(P, post_id)
    IN  IF found = {}
        THEN Result(P, redirect("get_all_posts", 0), <<"query.get">>)
        ELSE Result(DeleteRow(P, CHOOSE blog_post \in found : TRUE),
                    redirect("get_all_posts", 0), <<"query.get", "commit">>)

delete(P, post_id) ==
    LET found == Get(P, post_id)
    IN  IF found = {}
        THEN Result(P, Fault("UnmappedInstanceError"), <<"query.get">>)
        ELSE Result(DeleteRow(P, CHOOSE blog_post \in found : TRUE),
                    redirect("get_all_posts", 0), <<"query.get", "commit">>)

----------------------------------------------------------------------------
(* Requests *)

RequestIds == 1..MaxId

Workers == 1..NumWorkers

Request(endpoint, verb, id, f) ==
    [endpoint |-> endpoint, verb |-> verb, id |-> id, form |-> f]

NoRequest == Request("", "GET", 0, NoForm)

Idle == [pc |-> "idle", request |-> NoRequest, loaded |-> {}]

----------------------------------------------------------------------------
(* The state machine *)

Init ==
    /\ posts = {}
    /\ now = Epoch
    /\ request = NoRequest
    /\ resp = Response("none", "", 0, {}, {}, {})
    /\ steps = <<>>
    /\ deleted = {}
    /\ sessions = [w \in Workers |-> Idle]

\* a request handled to completion
Handle(req, res) ==
    /\ request' = req
    /\ posts' = res.posts
    /\ resp' = res.resp
    /\ steps' = res.steps
    /\ deleted' = deleted \cup (Ids(posts) \ Ids(res.posts))
    /\ UNCHANGED <<now, sessions>>

\* the clock advances between requests
Tick ==
    /\ now.day < Epoch.day + MaxTicks
    /\ now' = [now EXCEPT !.day = @ + 1]
    /\ request' = NoRequest
    /\ UNCHANGED <<posts, resp, steps, deleted, sessions>>

GetAllPosts ==
    Handle(Request("get_all_posts", "GET", 0, NoForm), get_all_posts(posts))

ShowPost(index) ==
    Handle(Request("show_post", "GET", index, NoForm), show_post(posts, index))

About == Handle(Request("about", "GET", 0, NoForm), Result(posts, about, <<>>))

Contact == Handle(Request("contact", "GET", 0, NoForm), Result(posts, contact, <<>>))

NewPost(verb, f) ==
    /\ NextRowid(posts) <= MaxId
    /\ Handle(Request("new_post", verb, 0, f), new_post(posts, now, verb, f))

EditPost(post_id, verb, f) ==
    Handle(Request("edit_post", verb, post_id, f), edit_post(posts, post_id, verb, f))

Delete(post_id) ==
    Handle(Request("delete", "GET", post_id, NoForm), delete(posts, post_id))

Next ==
    \/ Tick
    \/ GetAllPosts
    \/ \E index \in RequestIds : ShowPost(index)
    \/ About
    \/ Contact
    \/ NewPost("GET", NoForm)
    \/ \E f \in Submissions : NewPost("POST", f)
    \/ \E post_id \in RequestIds : EditPost(post_id, "GET", NoForm)
    \/ \E post_id \in RequestIds, f \in Submissions : EditPost(post_id, "POST", f)
    \/ \E post_id \in RequestIds : Delete(post_id)

Spec == Init /\ [][Next]_vars

----------------------------------------------------------------------------
(* Two workers: edit_post requests that interleave.  A worker reads the    *)
(* row (EditBegin) and later validates the form, assigns and commits       *)
(* (EditFinish); new_post requests fill the table.                         *)

EditBegin(w, post_id, verb, f) ==
    /\ sessions[w].pc = "idle"
    /\ LET found == Get(posts, post_id)
       IN  IF found = {}
           THEN EditPost(post_id, verb, f)
           ELSE /\ sessions' = [sessions EXCEPT ![w] =
                                   [pc |-> "loaded",
                                    request |-> Request("edit_post", verb, post_id, f),
                                    loaded |-> found]]
                /\ request' = NoRequest
                /\ UNCHANGED <<posts, now, resp, steps, deleted>>

EditFinish(w) ==
    /\ sessions[w].pc = "loaded"
    /\ LET s   == sessions[w]
           res == edit_post_form(posts, CHOOSE blog_post \in s.loaded : TRUE,
                                 s.request.verb, s.request.form)
       IN  /\ request' = s.request
           /\ posts' = res.posts
           /\ resp' = res.resp
           /\ steps' = res.steps
    /\ sessions' = [sessions EXCEPT ![w] = Idle]
    /\ UNCHANGED <<now, deleted>>

ConcNext ==
    \/ \E f \in GoodForms : NewPost("POST", f)
    \/ \E w \in Workers, post_id \in RequestIds, f \in GoodForms :
           EditBegin(w, post_id, "POST", f)
    \/ \E w \in Workers : EditFinish(w)

ConcSpec == Init /\ [][ConcNext]_vars

----------------------------------------------------------------------------
(* Properties *)

\* the five submitted values of a form, and the same five columns of a row
Submitted(f) == [c \in Fields |-> f[c]]
Stored(p) == [c \in Fields |-> p[c]]

\* the submissions that must fail validation: a field that is empty or
\* blank, an image URL that is not a well-formed URL, a bad CSRF token
RejectedForms ==
    {f \in Submissions :
        \/ \E c \in Fields : Strip(f[c]) = ""
        \/ ~URL(f.img_url)
        \/ ~f.csrf}

AcceptedForms == Submissions \ RejectedForms

\* the last step answered a POST to this endpoint
Posted(endpoint) == request.endpoint = endpoint /\ request.verb = "POST"

\* C1: no two stored rows have the same title, whatever requests were made.
TitleUnique == \A p, q \in posts : p.title = q.title => p = q

\* C1 witness: an edit that would have given a second row the title of
\* another one was refused, with two rows stored.
TitleClashOnEdit ==
    /\ Posted("edit_post")
    /\ resp = Fault("IntegrityError")
    /\ Cardinality(posts) = 2

\* C2 as stated: no stored row has the id of a row that was removed, and no
\* two stored rows share an id.
IdNeverReused ==
    /\ Ids(posts) \cap deleted = {}
    /\ \A p, q \in posts : p.id = q.id => p = q

\* C2 amended: ids are unique among the stored rows; a created row gets an id
\* greater than the id of every row stored at that time and the rows stored
\* before are kept; an edit changes no id.
IdUniqueAmongStored ==
    [][/\ \A p, q \in posts' : p.id = q.id => p = q
       /\ (request'.endpoint = "new_post" /\ resp'.kind = "redirect") =>
              \E p \in posts' :
                 /\ posts' = posts \cup {p}
                 /\ Cardinality(posts') = Cardinality(posts) + 1
                 /\ \A q \in posts : p.id > q.id
       /\ request'.endpoint = "edit_post" =>
              /\ Ids(posts') = Ids(posts)
              /\ Cardinality(posts') = Cardinality(posts)]_vars

\* C2 witness: a created row is stored under the id of a row removed before.
IdReused ==
    /\ Posted("new_post")
    /\ resp = redirect("get_all_posts", 0)
    /\ \E p \in posts : p.id \in deleted /\ p.id = Max(Ids(posts))

\* C3: a POST to new_post, or to edit_post for a stored id, whose form fails
\* validation leaves the table as it was and is answered by the form page,
\* rendered again with the submitted values.
RejectedFormKeepsTable ==
    [][(/\ request'.verb = "POST"
        /\ request'.form \in RejectedForms
        /\ \/ request'.endpoint = "new_post"
           \/ request'.endpoint = "edit_post" /\ request'.id \in Ids(posts))
       => /\ posts' = posts
          /\ resp'.kind = "render"
          /\ resp'.name = "make-post.html"
          /\ \E page \in resp'.form :
                /\ page.data = Submitted(request'.form)
                /\ page.new_post = (request'.endpoint = "new_post")]_vars

\* C3 witness: an edit of a stored row with an empty author was answered by
\* the form page.
RejectedEditRendered ==
    /\ Posted("edit_post")
    /\ request.id \in Ids(posts)
    /\ request.form.author = ""
    /\ resp.kind = "render"

\* C4: a POST to new_post with a valid form and a title that is not stored
\* adds exactly one row: it holds the five submitted values, an id no other
\* stored row has and the date of the server's clock; show_post and
\* get_all_posts return it, the other rows are as before, and the answer is a
\* redirect to get_all_posts.
NewPostAddsOneRow ==
    [][(/\ request'.endpoint = "new_post"
        /\ request'.verb = "POST"
        /\ request'.form \in AcceptedForms
        /\ ~TitleTaken(posts, request'.form.title))
       => /\ \E p \in posts' :
                /\ p \notin posts
                /\ posts' = posts \cup {p}
                /\ Stored(p) = Submitted(request'.form)
                /\ \A q \in posts' \ {p} : q.id # p.id
                /\ p.date = strftime(now)
                /\ now = Epoch => p.date = "09 09, 2024"
                /\ show_post(posts', p.id).resp.post = {p}
                /\ p \in get_all_posts(posts').resp.all_posts
          /\ resp' = redirect("get_all_posts", 0)]_vars

\* C4 witness: a second row was created on a later day than the first.
SecondPostCreated ==
    /\ Posted("new_post")
    /\ resp = redirect("get_all_posts", 0)
    /\ Cardinality(posts) = 2
    /\ \E p \in posts : p.date = strftime(now) /\ now # Epoch

\* the last step replaced the row of the request's id by a row with the five
\* submitted values and the same id and date, touched no other row, and was
\* answered by a redirect to show_post for that id
EditApplied ==
    /\ \E old \in posts :
          LET new == [id       |-> old.id,
                      title    |-> request'.form.title,
                      subtitle |-> request'.form.subtitle,
                      date     |-> old.date,
                      body     |-> request'.form.body,
                      author   |-> request'.form.author,
                      img_url  |-> request'.form.img_url]
          IN  /\ old.id = request'.id
              /\ posts' = (posts \ {old}) \cup {new}
              /\ Cardinality(posts') = Cardinality(posts)
              /\ show_post(posts', request'.id).resp.post = {new}
    /\ resp' = redirect("show_post", request'.id)

\* while a row is stored its date stays as it was
DateKept == \A p \in posts, q \in posts' : p.id = q.id => q.date = p.date

\* C5 as stated: every POST to edit_post with a valid form for a stored id
\* sets the row's five fields to the submitted values, keeps its id and date
\* and the other rows, and redirects to show_post.
ValidEditApplied ==
    [][/\ (/\ request'.endpoint = "edit_post"
           /\ request'.verb = "POST"
           /\ request'.form \in AcceptedForms
           /\ request'.id \in Ids(posts))
          => EditApplied
       /\ DateKept]_vars

\* C5 amended: the same, for a submitted title that no other stored row has.
ValidEditWithFreeTitleApplied ==
    [][/\ (/\ request'.endpoint = "edit_post"
           /\ request'.verb = "POST"
           /\ request'.form \in AcceptedForms
           /\ request'.id \in Ids(posts)
           /\ ~TitleTaken(posts \ Get(posts, request'.id), request'.form.title))
          => EditApplied
       /\ DateKept]_vars

\* C5 witness: a row created on an earlier day holds the values of the edit
\* just made and still has the date of its creation.
EditedRowKeepsDate ==
    /\ Posted("edit_post")
    /\ resp = redirect("show_post", request.id)
    /\ \E p \in posts :
          /\ p.id = request.id
          /\ Stored(p) = Submitted(request.form)
          /\ p.date # strftime(now)

\* C6: delete for a stored id removes exactly that row (show_post and
\* get_all_posts no longer return it, the other rows are as before) and
\* redirects to get_all_posts; a row under an id that is not stored appears
\* only by a new_post request.
DeleteRemovesOneRow ==
    [][/\ (request'.endpoint = "delete" /\ request'.id \in Ids(posts))
          => /\ posts' = posts \ Get(posts, request'.id)
             /\ Cardinality(posts') = Cardinality(posts) - 1
             /\ show_post(posts', request'.id).resp.post = {}
             /\ get_all_posts(posts').resp.all_posts \cap Get(posts, request'.id) = {}
             /\ resp' = redirect("get_all_posts", 0)
       /\ (\E p \in posts' : p.id \notin Ids(posts))
          => request'.endpoint = "new_post"]_vars

\* C6 witness: a row was deleted and another one is still stored.
RowDeleted ==
    /\ request.endpoint = "delete"
    /\ resp = redirect("get_all_posts", 0)
    /\ request.id \notin Ids(posts)
    /\ posts # {}

\* C7: a POST to new_post with a valid form whose title is stored already
\* ends in an IntegrityError, not a redirect, and leaves the table as it was.
DuplicateTitleRefused ==
    [][(/\ request'.endpoint = "new_post"
        /\ request'.verb = "POST"
        /\ request'.form \in AcceptedForms
        /\ TitleTaken(posts, request'.form.title))
       => /\ posts' = posts
          /\ resp' = Fault("IntegrityError")]_vars

\* C7 witness: a new_post with a stored title was refused.
DuplicateCreateRefused ==
    /\ Posted("new_post")
    /\ resp = Fault("IntegrityError")
    /\ TitleTaken(posts, request.form.title)

\* C8: for an id that is not stored, show_post renders the detail page without
\* a post, a POST to edit_post and a delete fault, and the table stays as it
\* was in all three.
MissingIdHandling ==
    [][(request'.id \in RequestIds \ Ids(posts))
       => /\ request'.endpoint = "show_post"
             => resp' = render_template("post.html", {}, {}, {}) /\ posts' = posts
          /\ (request'.endpoint = "edit_post" /\ request'.verb = "POST")
             => resp'.kind = "fault" /\ posts' = posts
          /\ request'.endpoint = "delete"
             => resp'.kind = "fault" /\ posts' = posts]_vars

\* C8 witness: a delete for an id that is not stored faulted, with a row stored.
MissingDeleteFaulted ==
    /\ request.endpoint = "delete"
    /\ request.id \notin Ids(posts)
    /\ resp.kind = "fault"
    /\ posts # {}

\* C10: an edit_post request for an id that is not stored, GET or POST, valid
\* or not, faults on the row's fields right after the lookup: the form is
\* neither validated nor rendered and nothing is committed.
EditDereferencesBeforeValidation ==
    [][(request'.endpoint = "edit_post" /\ request'.id \notin Ids(posts))
       => /\ resp' = Fault("AttributeError")
          /\ steps' = <<"query.get">>
          /\ posts' = posts]_vars

\* C10 witness: a POST with a form that fails validation, for an id that is
\* not stored, faulted.
InvalidEditOfMissingIdFaulted ==
    /\ Posted("edit_post")
    /\ request.form \in RejectedForms
    /\ request.id \notin Ids(posts)
    /\ resp = Fault("AttributeError")

\* C9 as stated: when an edit_post request commits, the row holds the five
\* values that request submitted, whatever other edit was in flight.
LastWriteWins ==
    [][(request'.endpoint = "edit_post" /\ resp'.kind = "redirect")
       => \A p \in posts' : p.id = request'.id => Stored(p) = Submitted(request'.form)]_vars

====
